---- MODULE Spec2Model ----
(***************************************************************************)
(* forza-pi-dash: the interval (delta-time) engine of the dashboard, the  *)
(* fuel estimate, and the listener that feeds them.                        *)
(*                                                                         *)
(* IntervalWidget (src/src/ParamWidgets.py) receives one decoded telemetry *)
(* reading per call of update and keeps the lap state machine, the trace   *)
(* of the lap being driven, the trace of the best lap and the delta shown  *)
(* on its label.                                                           *)
(*                                                                         *)
(* FuelWidget (same file) samples the fuel level once per lap.  Dashboard  *)
(* (src/src/Dashboard.py) starts and stops a Worker that receives the      *)
(* datagrams on its own thread and hands them, through queued signals, to  *)
(* Dashboard.onCollected on the main thread, which decodes them and passes *)
(* the race-on ones to the widgets.  The widgets that only show a field    *)
(* of the reading (speed, gear, tyres, ...) keep no state and are left out.*)
(*                                                                         *)
(* Numbers.  The widget's floats are modelled as integers: lap times in    *)
(* whole seconds, distances in whole metres.  Python's None is the empty   *)
(* tuple <<>>, a value v that may be None is <<v>>.  A point of a trace is *)
(* the pair <<lapDistance, lapTime>>, as in the source.                    *)
(***************************************************************************)
EXTENDS Integers, Sequences, FiniteSets, TLC

VARIABLES
    bestLap,            \* self.bestLap: <<>> (None) or <<seconds>>
    currentLap,         \* self.currentLap
    syncLap,            \* self.syncLap
    currentPoint,       \* self.currentPoint: <<>> (None) or <<distance, time>>
    distanceFactor,     \* self.distanceFactor
    bestLapPoints,      \* self.bestLapPoints
    currentLapPoints,   \* self.currentLapPoints
    bestPointIndex,     \* updateInterval's bestPointIndex at its last scan, 1-based (0: no scan yet)
    interval,           \* the delta last computed by updateInterval (0 with the label's "0.000")
    intervalText,       \* self.interval.text(): [sign, seconds, mseconds]
    intervalColor,      \* self.interval.styleSheet()
    lapEvent,           \* the branch the last call of update took
    game,               \* the game sending the readings: its lap, lap time, distance
    fuelLevelHistory,   \* FuelWidget.fuelLevelHistory: <<>> (None) or four levels
    lastLap,            \* FuelWidget.lastLap
    fuelPerLap,         \* value shown by FuelWidget.fuelPerLap, a ratio <<n, d>>
    lapsLeft,           \* value shown by FuelWidget.lapsLeft, a ratio <<n, d>>
    pitAlert,           \* display.pitAlert is visible
    notRacing,          \* display.notRacing is visible
    isRacing,           \* Dashboard.isRacing: emissions so far (modulo 2), flag last carried
    buttons,            \* listenButton (checked, enabled), settingsButton, resetButton (enabled)
    worker,             \* the Workers created so far, in order; the last is Dashboard.worker
    mainQueue,          \* signals queued to the main thread: collected(data), finished
    arrived,            \* datagrams the Workers have received so far
    handled,            \* arrival numbers of the datagrams onCollected was called with, in call order
    tab,                \* the page of Dashboard.stack shown: "display" or "settings"
    dashConfig          \* Dashboard.dashConfig: its port

\* The fields of the IntervalWidget and its label.
intervalVars == <<bestLap, currentLap, syncLap, currentPoint, distanceFactor,
                  bestLapPoints, currentLapPoints, bestPointIndex, interval,
                  intervalText, intervalColor, lapEvent>>

\* The fields of the FuelWidget and its two computed labels.
fuelVars == <<fuelLevelHistory, lastLap, fuelPerLap, lapsLeft>>

\* The alerts of the display and the signal that drives notRacing.
alertVars == <<pitAlert, notRacing, isRacing>>

\* The listener: the buttons, the Workers, their queued signals and the
\* record of the datagrams received and handled.
listenVars == <<buttons, worker, mainQueue, arrived, handled, tab, dashConfig>>

\* Everything outside the IntervalWidget.
outsideVars == <<game, fuelVars, alertVars, listenVars>>

vars == <<intervalVars, outsideVars>>

----------------------------------------------------------------------------
(* Bounds of the model and the readings fed to the widget.                 *)

\* Highest lap number a reading carries (lap_no is an unsigned field of the
\* packet: it is 0 on the first lap of a race).
MaxLap == 2

\* Longest current trace recorded under Spec and SpecScan; a reading that
\* would make the trace longer is not fed.
MaxPoints == 2

\* Longest current trace recorded under SpecLong.
MaxLongPoints == 3

Laps == 0..MaxLap

\* Lap numbers of the readings of Spec, SpecScan and SpecLong: the lap in
\* which the first reading falls, the first lap recorded from the line and
\* the lap driven against its trace.
RaceLaps == 0..2

\* cur_lap_time values: on the line, and past the one-second window.
CurLapTimes == {0, 2}

\* last_lap_time values: 0 (no lap completed yet) and three lap times.
LastLapTimes == {0, 88, 90, 95}

\* dist_traveled values; it may fall as well as rise between readings.
Distances == {0, 100, 200}

\* Readings of Spec: the lap state machine and the best-lap decision.
Readings ==
    [lap_no : RaceLaps, cur_lap_time : CurLapTimes,
     last_lap_time : LastLapTimes, dist_traveled : {0, 100}]

\* Readings of SpecScan and SpecLong: the traces and the nearest-point scan.
\* last_lap_time only feeds the best-lap decision; with 0 every completed
\* trace becomes the best trace.
ScanReadings ==
    [lap_no : RaceLaps, cur_lap_time : CurLapTimes,
     last_lap_time : {0}, dist_traveled : Distances]

\* Longest current trace recorded under SpecSigned.
MaxSignedPoints == 1

\* Lap numbers of SpecSigned: update takes int(fdp.lap_no) as it comes, so
\* any integer; -2 and -1 are the values __init__ gives currentLap and
\* syncLap, -3 is a negative number that is neither, 0 and 1 are the first
\* laps of a race.
SignedLaps == (-3)..1

\* Readings of SpecSigned: every lap number, at and past the lap boundary,
\* at two distances.
SignedReadings ==
    [lap_no : SignedLaps, cur_lap_time : CurLapTimes,
     last_lap_time : {90}, dist_traveled : {0, 100}]

\* Fuel levels of the datagrams of SpecDash, as fuel * 100000.
Fuels == {50000, 40000}

\* Datagrams of SpecDash, decoded: race on or off, any lap, taken on the
\* line, two fuel levels.
DashDatagrams ==
    [is_race_on : BOOLEAN, lap_no : Laps, cur_lap_time : {0},
     last_lap_time : {90}, dist_traveled : {0}, fuel : Fuels]

\* Lap numbers of the readings of SpecFuel: FuelWidget.update only looks
\* at whether lap_no differs from the lap it sampled last.
FuelLaps == 0..1

\* Fuel levels of the readings of SpecFuel, as fuel * 100000: 1.00, 0.90,
\* 0.80, 0.70, 0.70005, which int(fuel * 10000) cuts to 0.7000, and two low
\* levels, 0.50 and 0.10, at which a lap's consumption can reach or exceed
\* what is left.
FuelLevels == {100000, 90000, 80000, 70000, 70005, 50000, 10000}

\* Readings of SpecFuel (race on): the two fields FuelWidget.update uses.
FuelReadings == [lap_no : FuelLaps, fuel : FuelLevels]

\* Workers created under SpecListen (start requests).
MaxWorkers == 2

\* Signals of collected datagrams waiting for the main thread under
\* SpecListen; a datagram that would exceed it does not arrive.
MaxQueue == 2

\* Datagrams received under SpecListen, all Workers together; after that
\* many the selects only time out.
MaxArrivals == 3

\* The ports the settings form may hold (its spin box takes 1025..65535).
Ports == {5300, 5400}

\* The port of the configuration file the program is started with.
ConfiguredPort == 5300

\* Under SpecSettings two listening sessions and one datagram are
\* followed: a session before and a session after the settings are saved.
SettingsSessions == 2

SettingsArrivals == 1

\* Consecutive select timeouts counted; the count stays there.
MaxTimeouts == 2

\* Datagrams of SpecListen, decoded: one reading, race on or off.
ListenDatagrams ==
    [is_race_on : BOOLEAN, lap_no : {0}, cur_lap_time : {0},
     last_lap_time : {0}, dist_traveled : {0}, fuel : {50000}]

\* Datagrams as the Worker receives them: the bytes of one of the readings
\* above in the layout the decoder expects, or a buffer shorter than that
\* layout.
ListenPackets ==
    {[layout |-> "dash", reading |-> d] : d \in ListenDatagrams}
    \cup {[layout |-> "short"]}

\* Highest lap the game stream of SpecMidLap reaches.
MaxStreamLap == 3

\* The lap during which listening starts under SpecMidLap: two more laps
\* follow it.
StartLaps == 0..(MaxStreamLap - 2)

\* Lap clock of the game stream, whole seconds; 0 and 1 are inside the
\* new-lap window.
LapClock == 0..3

\* Cumulative distance of the game stream.
StreamDistances == {0, 100, 200, 300}

\* No lap is shorter than the new-lap window (a changed threshold: every
\* crossing is past it).
LapStartWindowNone == 0 - 1

\* A new-lap window of two seconds (a changed threshold).
LapStartWindowWide == 1 + 1

\* Readings of SpecFrame: what each branch of update changes and what it
\* leaves alone; one lap time, so a best lap is set once and then kept.
FrameReadings ==
    [lap_no : Laps, cur_lap_time : CurLapTimes,
     last_lap_time : {90}, dist_traveled : {0, 100}]

\* The new-lap window of update: a reading of the next lap whose
\* cur_lap_time is above it is taken as a gap.
LapStartWindow == 1

None == <<>>

----------------------------------------------------------------------------
(* Helpers.                                                                *)

Abs(x) == IF x < 0 THEN -x ELSE x

Last(s) == s[Len(s)]

\* The label text "0.000" set by __init__ and reset.
InitialText == [sign |-> "", seconds |-> 0, mseconds |-> "000"]

----------------------------------------------------------------------------
(* IntervalWidget.insertPoint: the trace after inserting point p.          *)

\* insertPoint without its empty-trace case: nothing enters an empty trace.
insertPointNonEmpty(points, p) ==
    IF Len(points) # 0 /\ (p[1] > points[Len(points)][1] \/ p[1] < 0)
    THEN Append(points, p)
    ELSE points

\* insertPoint overwriting the last point instead of appending.
insertPointOverwrite(points, p) ==
    IF Len(points) = 0
    THEN Append(points, p)
    ELSE IF p[1] > points[Len(points)][1] \/ p[1] < 0
         THEN [points EXCEPT ![Len(points)] = p]
         ELSE points

insertPoint(points, p) ==
    IF Len(points) = 0 \/ p[1] > Last(points)[1] \/ p[1] < 0
    THEN Append(points, p)
    ELSE points

----------------------------------------------------------------------------
(* IntervalWidget.updateInterval.                                          *)

\* The while loop of updateInterval from currentIndex on: the index held in
\* bestPointIndex when the loop ends.  bestDifference starts at
\* 9999999999999, above every difference of two distances, so the first
\* point is always taken; scanFrom is entered after it.
\* The loop advancing on < instead of <= (a changed comparison).
RECURSIVE scanFromStrict(_, _, _, _, _)
scanFromStrict(points, currentDistance, currentIndex, bestDifference, bestIndex) ==
    IF currentIndex > Len(points)
    THEN bestIndex
    ELSE LET currentDifference == Abs(points[currentIndex][1] - currentDistance)
         IN  IF currentDifference < bestDifference
             THEN scanFromStrict(points, currentDistance, currentIndex + 1,
                                 currentDifference, currentIndex)
             ELSE bestIndex

RECURSIVE scanFrom(_, _, _, _, _)
scanFrom(points, currentDistance, currentIndex, bestDifference, bestIndex) ==
    IF currentIndex > Len(points)
    THEN bestIndex
    ELSE LET currentDifference == Abs(points[currentIndex][1] - currentDistance)
         IN  IF currentDifference <= bestDifference
             THEN scanFrom(points, currentDistance, currentIndex + 1,
                           currentDifference, currentIndex)
             ELSE bestIndex

\* bestPointIndex for a non-empty best trace (1-based).
bestPointIndexOf(points, currentDistance) ==
    scanFrom(points, currentDistance, 2,
             Abs(points[1][1] - currentDistance), 1)

\* The subtraction the other way round.
intervalOfReversed(points, p) ==
    points[bestPointIndexOf(points, p[1])][2] - p[2]

\* interval = currentTime - bestPoint[1]
intervalOf(points, p) ==
    p[2] - points[bestPointIndexOf(points, p[1])][2]

\* The sign test taking zero as negative.
signOfNonPositive(iv) == IF iv <= 0 THEN "-" ELSE "+"

\* sign of the label text
signOf(iv) == IF iv < 0 THEN "-" ELSE "+"

\* "{}{}.{}".format(sign, int(seconds), mseconds): minutes of divmod(abs, 60)
\* are not shown; a whole number of seconds prints the fraction "0".
textOf(iv) ==
    [sign |-> signOf(iv), seconds |-> Abs(iv) % 60, mseconds |-> "0"]

colorOf(iv) ==
    IF iv > 0 THEN "#d54242" ELSE IF iv < 0 THEN "#62d542" ELSE "white"

\* updateInterval as a function of the best trace and the current point:
\* the label and delta after the call.
updateInterval(points, p, old) ==
    IF Len(points) = 0
    THEN old
    ELSE LET iv == intervalOf(points, p)
         IN  [index |-> bestPointIndexOf(points, p[1]), interval |-> iv,
              text |-> textOf(iv), color |-> colorOf(iv)]

----------------------------------------------------------------------------
(* IntervalWidget.__init__                                                 *)

\* No game stream is modelled: the readings are arbitrary.
NoGame ==
    [lap |-> 0, time |-> 0, dist |-> 0, first |-> 0, listening |-> FALSE,
     last |-> 0]

\* The value "0" a ParamWidget shows after __init__ and reset.
ZeroShown == <<0, 1>>

(* FuelWidget.__init__                                                     *)
FuelInit ==
    /\ fuelLevelHistory = None
    /\ lastLap = -3
    /\ fuelPerLap = ZeroShown
    /\ lapsLeft = ZeroShown

\* The alerts are shown until a signal hides them; no isRacing emission yet.
AlertInit ==
    /\ pitAlert = TRUE
    /\ notRacing = TRUE
    /\ isRacing = [emissions |-> 0, flag |-> None]

\* Dashboard.__init__: no Worker yet; the three buttons enabled, the listen
\* button not checked.
ListenInit ==
    /\ buttons = [listenChecked |-> FALSE, listenEnabled |-> TRUE,
                  settingsEnabled |-> TRUE, resetEnabled |-> TRUE]
    /\ worker = <<>>
    /\ mainQueue = <<>>
    /\ arrived = 0
    /\ handled = <<>>
    /\ tab = "display"
    /\ dashConfig = [port |-> ConfiguredPort]

Init ==
    /\ game = NoGame
    /\ FuelInit
    /\ AlertInit
    /\ ListenInit
    /\ bestLap = None
    /\ currentLap = -2
    /\ syncLap = -1
    /\ currentPoint = None
    /\ distanceFactor = 0
    /\ bestLapPoints = <<>>
    /\ currentLapPoints = <<>>
    /\ bestPointIndex = 0
    /\ interval = 0
    /\ intervalText = InitialText
    /\ intervalColor = "default"
    /\ lapEvent = "NONE"

\* A reset that waits for lap 0 as the lap to start recording on.
resetSyncAtZero ==
    /\ bestLap' = None
    /\ currentLap' = -2
    /\ syncLap' = 0
    /\ currentPoint' = None
    /\ distanceFactor' = 0
    /\ bestLapPoints' = <<>>
    /\ currentLapPoints' = <<>>
    /\ bestPointIndex' = 0
    /\ interval' = 0
    /\ intervalText' = InitialText
    /\ intervalColor' = "white"
    /\ lapEvent' = "NONE"

\* A reset that forgets the lap in progress and keeps the best lap.
resetKeepsBestLap ==
    /\ currentLap' = -2
    /\ syncLap' = -1
    /\ currentPoint' = None
    /\ distanceFactor' = 0
    /\ currentLapPoints' = <<>>
    /\ bestPointIndex' = 0
    /\ interval' = 0
    /\ intervalText' = InitialText
    /\ intervalColor' = "white"
    /\ lapEvent' = "NONE"
    /\ UNCHANGED <<bestLap, bestLapPoints>>

(* IntervalWidget.reset                                                    *)
reset ==
    /\ bestLap' = None
    /\ currentLap' = -2
    /\ syncLap' = -1
    /\ currentPoint' = None
    /\ distanceFactor' = 0
    /\ bestLapPoints' = <<>>
    /\ currentLapPoints' = <<>>
    /\ bestPointIndex' = 0
    /\ interval' = 0
    /\ intervalText' = InitialText
    /\ intervalColor' = "white"
    /\ lapEvent' = "NONE"

\* The label state as the record updateInterval works on.
labelNow ==
    [index |-> bestPointIndex, interval |-> interval,
     text |-> intervalText, color |-> intervalColor]

setLabel(l) ==
    /\ bestPointIndex' = l.index
    /\ interval' = l.interval
    /\ intervalText' = l.text
    /\ intervalColor' = l.color

\* The replacement condition without its bestLap <= 0 case.
isBestLapNoZero(best, lastLapTime) ==
    best = None \/ lastLapTime < best[1]

\* Every completed lap taken as the best lap.
isBestLapAlways(best, lastLapTime) == TRUE

\* The replacement condition of the new-lap branch.
isBestLap(best, lastLapTime) ==
    best = None \/ best[1] <= 0 \/ lastLapTime < best[1]

\* The current point taken with the absolute distance (distanceFactor
\* ignored).
lapPointAbsolute(currentDistance, factor, currentLapTime) ==
    <<currentDistance, currentLapTime>>

\* lapDistance = currentDistance - self.distanceFactor;
\* self.currentPoint = (lapDistance, currentLapTime)
lapPoint(currentDistance, factor, currentLapTime) ==
    <<currentDistance - factor, currentLapTime>>

(* IntervalWidget.update(fdp)                                              *)
update(fdp) ==
    LET playerLap == fdp.lap_no
        currentLapTime == fdp.cur_lap_time
        currentDistance == fdp.dist_traveled
        point0 == lapPoint(currentDistance, distanceFactor, currentLapTime)
        \* the point after distanceFactor became fdp.dist_traveled
        point1 == lapPoint(currentDistance, fdp.dist_traveled, currentLapTime)
    IN
    IF playerLap = currentLap THEN
        \* log the current point
        /\ currentPoint' = point0
        /\ currentLapPoints' = insertPoint(currentLapPoints, point0)
        /\ setLabel(updateInterval(bestLapPoints, point0, labelNow))
        /\ lapEvent' = "LAP_CONTINUED"
        /\ UNCHANGED <<bestLap, currentLap, syncLap, distanceFactor, bestLapPoints>>
    ELSE IF playerLap = currentLap + 1 THEN
        IF currentLapTime > LapStartWindow THEN
            /\ currentPoint' = point0
            /\ currentLap' = -1
            /\ currentLapPoints' = <<>>
            /\ syncLap' = playerLap + 1
            /\ lapEvent' = "GAP_DETECTED"
            /\ UNCHANGED <<bestLap, distanceFactor, bestLapPoints,
                           bestPointIndex, interval, intervalText, intervalColor>>
        ELSE
            LET newBest == IF isBestLap(bestLap, fdp.last_lap_time)
                           THEN currentLapPoints ELSE bestLapPoints
            IN
            /\ bestLapPoints' = newBest
            /\ bestLap' = IF isBestLap(bestLap, fdp.last_lap_time)
                          THEN <<fdp.last_lap_time>> ELSE bestLap
            /\ distanceFactor' = fdp.dist_traveled
            /\ currentPoint' = point1
            /\ currentLapPoints' = insertPoint(<<>>, point1)
            /\ currentLap' = currentLap + 1
            /\ setLabel(updateInterval(newBest, point1, labelNow))
            /\ lapEvent' = "NEW_LAP"
            /\ UNCHANGED syncLap
    ELSE
        IF playerLap = syncLap THEN
            /\ distanceFactor' = fdp.dist_traveled
            /\ currentPoint' = point1
            /\ currentLapPoints' = insertPoint(<<>>, point1)
            /\ currentLap' = syncLap
            /\ setLabel(updateInterval(bestLapPoints, point1, labelNow))
            /\ lapEvent' = "RESYNCED"
            /\ UNCHANGED <<bestLap, syncLap, bestLapPoints>>
        ELSE
            /\ currentPoint' = point0
            /\ syncLap' = playerLap + 1
            /\ lapEvent' = "GAP_DETECTED"
            /\ UNCHANGED <<bestLap, currentLap, distanceFactor, bestLapPoints,
                           currentLapPoints, bestPointIndex, interval,
                           intervalText, intervalColor>>

----------------------------------------------------------------------------
(* FuelWidget.  A fuel level is the integer fuel * 100000 (fdp.fuel is a   *)
(* fraction 0..1), one digit finer than int(fuel * 10000) keeps.  Every    *)
(* number held in fuelLevelHistory is kept in that unit too (the number x  *)
(* is held as x * 100000), so the list [fuel] * 4 holds fuel * 100000 and  *)
(* the appended int(fuel * 10000) / 100 holds 1000 * int(fuel * 10000).    *)
(* A quotient is the pair <<numerator, denominator>>.                      *)

\* The first sample kept once, behind three empty (zero) slots.
primedHistoryLastSlot(fuel) == <<0, 0, 0, fuel>>

\* self.fuelLevelHistory = [fuel for i in range(4)]
primedHistory(fuel) == <<fuel, fuel, fuel, fuel>>

\* int(fuel * 10000): the digits past the fourth decimal are cut.
hundredthsOfPercent(fuel) == fuel \div 10

\* self.fuelLevelHistory.pop(0); .append(int(fuel * 10000) / 100)
shiftedHistory(history, fuel) ==
    Append(Tail(history), 1000 * hundredthsOfPercent(fuel))

\* The difference of two successive entries, whichever is higher.
usedOrRefuelled(history, i) == Abs(history[i] - history[i + 1])

\* used = fuelLevelHistory[i - 1] - fuelLevelHistory[i], i in range(1, 4)
used(history, i) == history[i] - history[i + 1]

totalUsed(history) ==
    LET u(i) == IF used(history, i) > 0 THEN used(history, i) ELSE 0
    IN  u(1) + u(2) + u(3)

lapCount(history) ==
    Cardinality({i \in 1..3 : used(history, i) > 0})

(* FuelWidget.getAverageFuelUsage                                          *)
getAverageFuelUsage(history) ==
    IF totalUsed(history) = 0
    THEN ZeroShown
    ELSE <<totalUsed(history), lapCount(history)>>

\* The quotient of the fuel fraction and the usage, not brought to one unit.
lapsLeftOfFraction(fuel, usage) == <<fuel * usage[2], usage[1]>>

\* lapsLeft = (fuel / usage) * 100
lapsLeftOf(fuel, usage) == <<100 * fuel * usage[2], usage[1]>>

\* lapsLeft < 1
lessThanOneLap(l) == l[1] < l[2]

\* lapsLeft <= 1
atMostOneLap(l) == l[1] <= l[2]

\* The value enoughFuel is emitted with: False if lapsLeft <= 1, else True.
enoughFuel(l) == ~atMostOneLap(l)

\* The alert shown when the flag it receives is True.
showHideInverted(hide) == hide

\* AlertWidget.showHide(hide): the alert is visible afterwards unless hide.
showHide(hide) == ~hide

(* FuelWidget.reset                                                        *)
fuelReset ==
    /\ fuelLevelHistory' = None
    /\ lastLap' = -3
    /\ fuelPerLap' = ZeroShown
    /\ lapsLeft' = ZeroShown

\* The end of update showing no laps left, and the alert, while the usage
\* is zero.
showLapsLeftOrNone(fuel, usage) ==
    IF usage[1] # 0
    THEN /\ lapsLeft' = lapsLeftOf(fuel, usage)
         /\ pitAlert' = atMostOneLap(lapsLeftOf(fuel, usage))
    ELSE /\ lapsLeft' = ZeroShown
         /\ pitAlert' = TRUE

\* The end of FuelWidget.update: laps left and the enoughFuel signal, which
\* display.pitAlert.showHide receives.
showLapsLeft(fuel, usage) ==
    IF usage[1] # 0
    THEN /\ lapsLeft' = lapsLeftOf(fuel, usage)
         /\ pitAlert' = showHide(enoughFuel(lapsLeftOf(fuel, usage)))
    ELSE UNCHANGED <<lapsLeft, pitAlert>>

(* FuelWidget.update(fdp)                                                  *)
fuelUpdate(fdp) ==
    IF fdp.lap_no # lastLap
    THEN LET history == IF fuelLevelHistory = None
                        THEN primedHistory(fdp.fuel)
                        ELSE shiftedHistory(fuelLevelHistory, fdp.fuel)
         IN  /\ lastLap' = fdp.lap_no
             /\ fuelLevelHistory' = history
             /\ fuelPerLap' = getAverageFuelUsage(history)
             /\ showLapsLeft(fdp.fuel, getAverageFuelUsage(history))
    ELSE IF fuelLevelHistory = None
         THEN \* getAverageFuelUsage indexes None: the slot ends in a TypeError
              UNCHANGED <<fuelVars, pitAlert>>
         ELSE /\ UNCHANGED <<lastLap, fuelLevelHistory, fuelPerLap>>
              /\ showLapsLeft(fdp.fuel, getAverageFuelUsage(fuelLevelHistory))

----------------------------------------------------------------------------
(* Dashboard.onCollected.                                                  *)

\* onCollected passing every reading on, race on or not.
passesReadingAlways(fdp) == TRUE

\* if not fdp.is_race_on: return
passesReading(fdp) == fdp.is_race_on

\* self.isRacing.emit(flag), received by display.notRacing.showHide(hide)
emitIsRacing(flag) ==
    /\ isRacing' = [emissions |-> (isRacing.emissions + 1) % 2,
                    flag |-> <<flag>>]
    /\ notRacing' = ~flag

\* updateSignal.emit(fdp, dashConfig): the slots in the order Display.py
\* connects them; of the widgets connected, these two keep state.
emitUpdate(fdp) ==
    /\ update(fdp)
    /\ fuelUpdate(fdp)

onCollected(fdp) ==
    /\ emitIsRacing(fdp.is_race_on)
    /\ IF passesReading(fdp)
       THEN emitUpdate(fdp)
       ELSE UNCHANGED <<intervalVars, fuelVars, pitAlert>>

\* decode(bytes) fails with MalformedPacketError if the buffer is shorter
\* than the fixed layout of the packet format in use.
decodeFails(data) == data.layout = "short"

\* fdp = ForzaDataPacket(data): the reading the bytes hold.
ForzaDataPacket(data) == data.reading

\* What a decoder padding a short buffer with zeros would return: the flag
\* at the head of the buffer, every later field zero.
PaddedReading ==
    [is_race_on |-> TRUE, lap_no |-> 0, cur_lap_time |-> 0,
     last_lap_time |-> 0, dist_traveled |-> 0, fuel |-> 0]

\* The slot going on with a padded reading when the buffer is short.
dataCollectedPadded(data) ==
    onCollected(IF decodeFails(data) THEN PaddedReading
                                     ELSE ForzaDataPacket(data))

\* The slot of worker.collected from its first line: the decoder's error is
\* not caught, it ends the slot at line 186 before anything is emitted, and
\* the event loop that called the slot goes on.
dataCollected(data) ==
    IF decodeFails(data)
    THEN UNCHANGED <<intervalVars, fuelVars, alertVars>>
    ELSE onCollected(ForzaDataPacket(data))

----------------------------------------------------------------------------
(* Specifications of the IntervalWidget alone.                             *)

\* One reading arrives (race on) and is handed to the widget.
Update ==
    \E fdp \in Readings :
        /\ update(fdp)
        /\ Len(currentLapPoints') <= MaxPoints
        /\ UNCHANGED outsideVars

UpdateScan ==
    \E fdp \in ScanReadings :
        /\ update(fdp)
        /\ Len(currentLapPoints') <= MaxPoints
        /\ UNCHANGED outsideVars

UpdateLong ==
    \E fdp \in ScanReadings :
        /\ update(fdp)
        /\ Len(currentLapPoints') <= MaxLongPoints
        /\ UNCHANGED outsideVars

\* The reset slot of the widget.
Reset ==
    /\ reset
    /\ UNCHANGED outsideVars

Next == Update \/ Reset

Spec == Init /\ [][Next]_vars

NextScan == UpdateScan \/ Reset

SpecScan == Init /\ [][NextScan]_vars

NextLong == UpdateLong \/ Reset

SpecLong == Init /\ [][NextLong]_vars

UpdateFrame ==
    \E fdp \in FrameReadings :
        /\ update(fdp)
        /\ Len(currentLapPoints') <= MaxPoints
        /\ UNCHANGED outsideVars

NextFrame == UpdateFrame \/ Reset

SpecFrame == Init /\ [][NextFrame]_vars

UpdateSigned ==
    \E fdp \in SignedReadings :
        /\ update(fdp)
        /\ Len(currentLapPoints') <= MaxSignedPoints
        /\ UNCHANGED outsideVars

NextSigned == UpdateSigned \/ Reset

SpecSigned == Init /\ [][NextSigned]_vars

----------------------------------------------------------------------------
(* A game stream without loss: the docstring case of update, the dashboard *)
(* started in the middle of a lap.                                         *)

\* The reading the game sends in state g.
readingOf(g) ==
    [lap_no |-> g.lap, cur_lap_time |-> g.time,
     last_lap_time |-> g.last, dist_traveled |-> g.dist]

\* The game states that may follow g at the next packet: the lap goes on
\* (the clock advances, the distance does not fall), or the line is crossed
\* (next lap, the clock restarts inside the window, the lap just driven
\* becomes last_lap_time).  A lap lasts longer than the window.
nextGame(g) ==
    {[g EXCEPT !.time = t, !.dist = d] :
        t \in {u \in LapClock : u > g.time},
        d \in {e \in StreamDistances : e >= g.dist}}
    \cup
    {[g EXCEPT !.lap = g.lap + 1, !.time = t, !.dist = d, !.last = g.time] :
        t \in {u \in LapClock :
                 u <= 1 /\ g.time > 1 /\ g.lap < MaxStreamLap},
        d \in {e \in StreamDistances : e >= g.dist}}

\* A fresh widget; the game is in the middle of lap first.
InitMidLap ==
    /\ bestLap = None
    /\ currentLap = -2
    /\ syncLap = -1
    /\ currentPoint = None
    /\ distanceFactor = 0
    /\ bestLapPoints = <<>>
    /\ currentLapPoints = <<>>
    /\ bestPointIndex = 0
    /\ interval = 0
    /\ intervalText = InitialText
    /\ intervalColor = "default"
    /\ lapEvent = "NONE"
    /\ FuelInit
    /\ AlertInit
    /\ ListenInit
    /\ game \in {[lap |-> l, time |-> t, dist |-> d, first |-> l,
                   listening |-> FALSE, last |-> 0] :
                     l \in StartLaps, t \in {2, 3}, d \in {0, 100}}

\* Listening starts: the reading the game is sending is the first one the
\* widget gets.
StartListening ==
    /\ ~game.listening
    /\ update(readingOf(game))
    /\ game' = [game EXCEPT !.listening = TRUE]
    /\ UNCHANGED <<fuelVars, alertVars, listenVars>>

\* The next packet of the game arrives.
StreamTick ==
    /\ game.listening
    /\ \E g \in nextGame(game) :
          /\ game' = g
          /\ update(readingOf(g))
    /\ UNCHANGED <<fuelVars, alertVars, listenVars>>

NextMidLap == StartListening \/ StreamTick

SpecMidLap == InitMidLap /\ [][NextMidLap]_vars

----------------------------------------------------------------------------
(* The dashboard handed datagrams one by one.                              *)

\* A datagram reaches Dashboard.onCollected.
Collect ==
    \E fdp \in DashDatagrams :
        /\ onCollected(fdp)
        /\ Len(currentLapPoints') <= MaxPoints
        /\ UNCHANGED <<game, listenVars>>

\* The reset button: the reset slots of the widgets.
ClickReset ==
    /\ reset
    /\ fuelReset
    /\ UNCHANGED <<game, alertVars, listenVars>>

NextDash == Collect \/ ClickReset

SpecDash == Init /\ [][NextDash]_vars

----------------------------------------------------------------------------
(* The FuelWidget alone.                                                   *)

\* One reading (race on) is handed to the widget.
FuelTick ==
    \E fdp \in FuelReadings :
        /\ fuelUpdate(fdp)
        /\ UNCHANGED <<intervalVars, game, notRacing, isRacing, listenVars>>

\* The reset slot of the widget.
FuelReset ==
    /\ fuelReset
    /\ UNCHANGED <<intervalVars, game, alertVars, listenVars>>

NextFuel == FuelTick \/ FuelReset

SpecFuel == Init /\ [][NextFuel]_vars

----------------------------------------------------------------------------
(* The listener: Dashboard.toggle_loop, Worker.work on its thread, and the *)
(* slots its queued signals reach on the main thread.                      *)
(*                                                                         *)
(* A Worker is a record: pc is the place work() has reached ("started":    *)
(* thread.start() was called and work has not run yet; "loop": at the test *)
(* of the while; "select": inside the try; "close": the loop is left;      *)
(* "emit": the socket is closed; "returned"; "raised": work ended by an    *)
(* exception nothing catches), working and sock are its fields, address    *)
(* tells whether the local variable address has been assigned, timeouts    *)
(* counts the select timeouts since the last datagram, closes and finishes *)
(* count sock.close() and finished.emit().                                 *)

workerIds == 1..Len(worker)

\* A signal posted ahead of the ones already waiting.
postEventFirst(queue, event) == <<event>> \o queue

\* A signal emitted on a Worker's thread for a slot of the Dashboard, which
\* lives on the main thread: the call is posted to the main thread's event
\* queue, behind the ones already posted.
postEvent(queue, event) == Append(queue, event)

(* Worker.__init__                                                         *)
newWorker ==
    [pc |-> "started", working |-> TRUE, sock |-> "open", address |-> FALSE,
     timeouts |-> 0, closes |-> 0, finishes |-> 0, port |-> dashConfig.port]

\* toggle_loop leaving the settings button enabled while listening.
toggle_loopKeepsSettings(checked) ==
    IF ~checked
    THEN /\ buttons' = [buttons EXCEPT !.listenChecked = FALSE,
                                       !.listenEnabled = FALSE]
         /\ worker' = [worker EXCEPT ![Len(worker)].working = FALSE]
    ELSE /\ buttons' = [buttons EXCEPT !.listenChecked = TRUE,
                                       !.resetEnabled = FALSE]
         /\ worker' = Append(worker, newWorker)

\* toggle_loop leaving the listen button enabled after a stop request.
toggle_loopKeepsEnabled(checked) ==
    IF ~checked
    THEN /\ buttons' = [buttons EXCEPT !.listenChecked = FALSE]
         /\ worker' = [worker EXCEPT ![Len(worker)].working = FALSE]
    ELSE /\ buttons' = [buttons EXCEPT !.listenChecked = TRUE,
                                       !.settingsEnabled = FALSE,
                                       !.resetEnabled = FALSE]
         /\ worker' = Append(worker, newWorker)

(* Dashboard.toggle_loop(checked)                                          *)
toggle_loop(checked) ==
    IF ~checked
    THEN /\ buttons' = [buttons EXCEPT !.listenChecked = FALSE,
                                       !.listenEnabled = FALSE]
         /\ worker' = [worker EXCEPT ![Len(worker)].working = FALSE]
    ELSE /\ buttons' = [buttons EXCEPT !.listenChecked = TRUE,
                                       !.settingsEnabled = FALSE,
                                       !.resetEnabled = FALSE]
         /\ worker' = Append(worker, newWorker)

\* The listen button is clicked: it toggles and toggle_loop gets the new state.
ClickListen ==
    /\ tab = "display"
    /\ buttons.listenEnabled
    /\ buttons.listenChecked \/ Len(worker) < MaxWorkers
    /\ toggle_loop(~buttons.listenChecked)
    /\ UNCHANGED <<intervalVars, fuelVars, alertVars, game, mainQueue, arrived,
                   handled, tab, dashConfig>>

\* The rest of the program while a Worker takes a step.
WorkerStepFrame ==
    UNCHANGED <<intervalVars, fuelVars, alertVars, game, buttons, handled,
                tab, dashConfig>>

\* self.sock.bind(('', self.port)): fails while another socket holds the port.
Bind(w) ==
    /\ worker[w].pc = "started"
    /\ worker' = IF \E v \in workerIds : /\ worker[v].sock = "bound"
                                         /\ worker[v].port = worker[w].port
                 THEN [worker EXCEPT ![w].pc = "raised"]
                 ELSE [worker EXCEPT ![w].pc = "loop", ![w].sock = "bound"]
    /\ UNCHANGED <<mainQueue, arrived>>
    /\ WorkerStepFrame

\* while self.working:
TestWorking(w) ==
    /\ worker[w].pc = "loop"
    /\ worker' = [worker EXCEPT
                    ![w].pc = IF worker[w].working THEN "select" ELSE "close"]
    /\ UNCHANGED <<mainQueue, arrived>>
    /\ WorkerStepFrame

\* select reports the socket ready, recvfrom returns a datagram,
\* collected.emit(data) queues it for the main thread.
Receive(w) ==
    /\ worker[w].pc = "select"
    /\ Len(mainQueue) < MaxQueue
    /\ arrived < MaxArrivals
    /\ arrived' = arrived + 1
    /\ \E data \in ListenPackets :
          mainQueue' = postEvent(mainQueue,
                                 [signal |-> "collected", from |-> w,
                                  data |-> data, seq |-> arrived + 1])
    /\ worker' = [worker EXCEPT ![w].pc = "loop", ![w].address = TRUE,
                                ![w].timeouts = 0]
    /\ WorkerStepFrame

\* select returns after socketTimeout with nothing to read.
Timeout(w) ==
    /\ worker[w].pc = "select"
    /\ worker' = [worker EXCEPT
                    ![w].pc = "loop",
                    ![w].timeouts = IF worker[w].timeouts < MaxTimeouts
                                    THEN worker[w].timeouts + 1
                                    ELSE worker[w].timeouts]
    /\ UNCHANGED <<mainQueue, arrived>>
    /\ WorkerStepFrame

\* The handler of BlockingIOError always finding address assigned.
handlerEndsAlwaysLoop(addressAssigned) == "loop"

\* except BlockingIOError: logging.info("...".format(address)): address is
\* assigned by the first recvfrom that returns; before that, reading it
\* raises UnboundLocalError and work() ends there.
handlerEnds(addressAssigned) == IF addressAssigned THEN "loop" ELSE "raised"

\* The non-blocking read raises BlockingIOError.
BlockingIO(w) ==
    /\ worker[w].pc = "select"
    /\ worker' = [worker EXCEPT ![w].pc = handlerEnds(worker[w].address)]
    /\ UNCHANGED <<mainQueue, arrived>>
    /\ WorkerStepFrame

\* self.sock.close()
Close(w) ==
    /\ worker[w].pc = "close"
    /\ worker' = [worker EXCEPT ![w].pc = "emit", ![w].sock = "closed",
                                ![w].closes = worker[w].closes + 1]
    /\ UNCHANGED <<mainQueue, arrived>>
    /\ WorkerStepFrame

\* self.finished.emit(): queued for Dashboard.loop_finished.
Finish(w) ==
    /\ worker[w].pc = "emit"
    /\ worker' = [worker EXCEPT ![w].pc = "returned",
                                ![w].finishes = worker[w].finishes + 1]
    /\ mainQueue' = postEvent(mainQueue, [signal |-> "finished", from |-> w])
    /\ UNCHANGED arrived
    /\ WorkerStepFrame

(* Dashboard.loop_finished                                                 *)
loop_finished ==
    /\ buttons' = [buttons EXCEPT !.listenEnabled = TRUE,
                                  !.settingsEnabled = TRUE,
                                  !.resetEnabled = TRUE]
    /\ emitIsRacing(FALSE)

\* The main thread takes the next queued signal: collected runs
\* onCollected on the bytes it carries.
DeliverCollected ==
    /\ mainQueue # <<>>
    /\ Head(mainQueue).signal = "collected"
    /\ dataCollected(Head(mainQueue).data)
    /\ handled' = Append(handled, Head(mainQueue).seq)
    /\ mainQueue' = Tail(mainQueue)
    /\ UNCHANGED <<game, buttons, worker, arrived, tab, dashConfig>>

\* The main thread takes the next queued signal: finished runs
\* loop_finished.
DeliverFinished ==
    /\ mainQueue # <<>>
    /\ Head(mainQueue).signal = "finished"
    /\ loop_finished
    /\ mainQueue' = Tail(mainQueue)
    /\ UNCHANGED <<intervalVars, fuelVars, pitAlert, game, worker, arrived,
                   handled, tab, dashConfig>>

\* The reset button is clicked while it is enabled.
ClickResetEnabled ==
    /\ tab = "display"
    /\ buttons.resetEnabled
    /\ reset
    /\ fuelReset
    /\ UNCHANGED <<game, alertVars, listenVars>>

\* The clicks, one step of Worker.work on some Worker's thread, or the
\* main thread taking a queued signal.
NextListen ==
    \/ ClickListen
    \/ \E w \in workerIds : Bind(w)
    \/ \E w \in workerIds : TestWorking(w)
    \/ \E w \in workerIds : Receive(w)
    \/ \E w \in workerIds : Timeout(w)
    \/ \E w \in workerIds : BlockingIO(w)
    \/ \E w \in workerIds : Close(w)
    \/ \E w \in workerIds : Finish(w)
    \/ DeliverCollected
    \/ DeliverFinished
    \/ ClickResetEnabled

SpecListen == Init /\ [][NextListen]_vars

\* What the settings page leaves alone.
SettingsFrame ==
    UNCHANGED <<intervalVars, fuelVars, alertVars, game, buttons, worker,
                mainQueue, arrived, handled>>

\* The settings button of the display page is clicked while it is enabled:
\* changeToSettingsTab.
ClickSettings ==
    /\ tab = "display"
    /\ buttons.settingsEnabled
    /\ tab' = "settings"
    /\ UNCHANGED dashConfig
    /\ SettingsFrame

(* Dashboard.saveConfig                                                    *)
saveConfig(newDashConfig) ==
    dashConfig' = [dashConfig EXCEPT !.port = newDashConfig.port]

\* The save button of the settings page: changeToDisplayTab, and saveConfig
\* with what the form holds.
ClickSave ==
    /\ tab = "settings"
    /\ tab' = "display"
    /\ \E port \in Ports : saveConfig([port |-> port])
    /\ SettingsFrame

\* The cancel button of the settings page: changeToDisplayTab.
ClickCancel ==
    /\ tab = "settings"
    /\ tab' = "display"
    /\ UNCHANGED dashConfig
    /\ SettingsFrame

\* A step of the listener under SpecSettings.
ListenStep ==
    /\ NextListen
    /\ Len(worker') <= SettingsSessions
    /\ arrived' <= SettingsArrivals

\* The listener with the settings page in reach.
NextSettings ==
    \/ ListenStep
    \/ ClickSettings
    \/ ClickSave
    \/ ClickCancel

SpecSettings == Init /\ [][NextSettings]_vars

\* One step of work() on the thread of Worker w.
WorkerStep(w) ==
    /\ w \in workerIds
    /\ \/ Bind(w)
       \/ TestWorking(w)
       \/ Receive(w)
       \/ Timeout(w)
       \/ BlockingIO(w)
       \/ Close(w)
       \/ Finish(w)

\* The scheduling the program runs under: a started thread keeps running
\* work() (select returns after socketTimeout at the latest), and the event
\* loop of the main thread keeps taking the queued signals.  Clicks are up
\* to the user.
ListenFairness ==
    /\ \A w \in 1..MaxWorkers : WF_vars(WorkerStep(w))
    /\ WF_vars(DeliverCollected)
    /\ WF_vars(DeliverFinished)

SpecListenFair == SpecListen /\ ListenFairness

----------------------------------------------------------------------------
(* Properties.                                                             *)

\* The last call of update ran updateInterval against a non-empty best
\* trace: currentPoint and bestLapPoints are the values it worked on.
IntervalComputed ==
    /\ lapEvent \in {"LAP_CONTINUED", "NEW_LAP", "RESYNCED"}
    /\ bestLapPoints # <<>>

\* Absolute distance difference of the i-th best point to the current point.
difference(i) == Abs(bestLapPoints[i][1] - currentPoint[1])

\* The step put a point into currentLapPoints.
PointInserted ==
    /\ currentLapPoints' # <<>>
    /\ currentLapPoints' # currentLapPoints

StrictlyIncreasing(points) ==
    \A i \in 1..(Len(points) - 1) : points[i][1] < points[i + 1][1]

\* The end of the longest prefix of the best trace along which the
\* difference to the current point never grows.
MatchedIndex ==
    CHOOSE k \in 1..Len(bestLapPoints) :
        /\ \A i \in 1..(k - 1) : difference(i + 1) <= difference(i)
        /\ k < Len(bestLapPoints) => difference(k + 1) > difference(k)

\* C1: every trace copied into bestLapPoints was recorded from the first
\* reading of its lap at the lap boundary (cur_lap_time <= 1): whenever a best
\* lap is held, its trace is not empty and starts with a point taken inside
\* the one-second window.
C1_BestTraceFromLapStart ==
    bestLap # None =>
        /\ bestLapPoints # <<>>
        /\ bestLapPoints[1][2] <= LapStartWindow

\* C2: a reading whose lap is neither currentLap, currentLap + 1 nor the
\* awaited syncLap sets syncLap to playerLap + 1, and after a gap was detected
\* no point is inserted into currentLapPoints by a reading whose lap is not
\* syncLap.
C2_NoPointUntilSync ==
    [][\A fdp \in Readings :
          update(fdp) =>
            /\ (fdp.lap_no # currentLap /\ fdp.lap_no # currentLap + 1
                    /\ fdp.lap_no # syncLap)
                  => syncLap' = fdp.lap_no + 1
            /\ (lapEvent = "GAP_DETECTED" /\ PointInserted)
                  => fdp.lap_no = syncLap]_vars

\* C3: on a new-lap tick (playerLap = currentLap + 1, cur_lap_time <= 1) the
\* best trace becomes the completed current trace and bestLap becomes
\* last_lap_time if bestLap is None, bestLap <= 0 or last_lap_time < bestLap;
\* otherwise both are unchanged.
C3_BestLapReplacement ==
    [][lapEvent' = "NEW_LAP" =>
        \A fdp \in Readings :
          (/\ fdp.lap_no = currentLap + 1
           /\ fdp.cur_lap_time <= 1
           /\ update(fdp))
          => IF bestLap = None \/ bestLap[1] <= 0 \/ fdp.last_lap_time < bestLap[1]
             THEN bestLapPoints' = currentLapPoints /\ bestLap' = <<fdp.last_lap_time>>
             ELSE bestLapPoints' = bestLapPoints /\ bestLap' = bestLap]_vars

\* A new-lap tick after which the 88 s lap is the best lap, with its trace.
C3_Witness ==
    /\ lapEvent = "NEW_LAP"
    /\ bestLap = <<88>>
    /\ bestLapPoints # <<>>
    /\ currentLap = 2

\* C4: the distances stored in currentLapPoints and in bestLapPoints are
\* strictly increasing.
C4_TracesStrictlyIncreasing ==
    /\ StrictlyIncreasing(currentLapPoints)
    /\ StrictlyIncreasing(bestLapPoints)

\* C5: a reading of the current lap whose lap-relative distance is negative
\* leaves currentLapPoints unchanged.
C5_NegativeDistanceDiscarded ==
    [][\A fdp \in ScanReadings :
          (/\ fdp.lap_no = currentLap
           /\ fdp.dist_traveled - distanceFactor < 0
           /\ update(fdp))
          => currentLapPoints' = currentLapPoints]_vars

\* C6: the point matched by the scan is as near to the current point's
\* distance as any point of bestLapPoints.
C6_ScanFindsNearest ==
    IntervalComputed =>
        \A j \in 1..Len(bestLapPoints) :
            difference(bestPointIndex) <= difference(j)

ExampleBestLapPoints == << <<0, 0>>, <<100, 10>>, <<200, 20>> >>

\* C8: the delta is the current point's time minus the matched best point's
\* time; against the example trace the point (100, 9) gives -1 and (100, 11)
\* gives +1.
C8_DeltaIsCurrentMinusBest ==
    /\ IntervalComputed =>
          interval = currentPoint[2] - bestLapPoints[MatchedIndex][2]
    /\ updateInterval(ExampleBestLapPoints, <<100, 9>>, labelNow).interval = -1
    /\ updateInterval(ExampleBestLapPoints, <<100, 11>>, labelNow).interval = 1

\* A delta computed against the second best point, the current lap faster.
C8_Witness ==
    /\ IntervalComputed
    /\ bestPointIndex = 2
    /\ currentPoint[2] < bestLapPoints[2][2]
    /\ interval < 0

\* C9: the sign shown is "-" exactly when the delta (current time minus
\* matched best time) is negative, and "+" otherwise, zero included.
C9_SignOfDelta ==
    IntervalComputed =>
        LET delta == currentPoint[2] - bestLapPoints[MatchedIndex][2]
        IN  /\ intervalText.sign = "-" <=> delta < 0
            /\ intervalText.sign = "+" <=> delta >= 0

\* A delta of exactly zero shown with "+".
C9_Witness ==
    /\ IntervalComputed
    /\ currentPoint[2] = bestLapPoints[MatchedIndex][2]
    /\ intervalText.sign = "+"

\* C10: while bestLapPoints is empty the label shows the no-data text "0.000"
\* and the delta is zero.
C10_NoBestNoDelta ==
    bestLapPoints = <<>> =>
        /\ intervalText = InitialText
        /\ interval = 0

\* The label and the scan result are what they were before the step.
DeltaUntouched ==
    UNCHANGED <<bestPointIndex, interval, intervalText, intervalColor>>

\* C11: a reading of the next lap (playerLap = currentLap + 1) with
\* cur_lap_time > 1 is taken as a gap: currentLap becomes -1, syncLap becomes
\* playerLap + 1, distanceFactor, bestLap and bestLapPoints keep their
\* values, no point is inserted and no delta is computed.
C11_BoundaryGap ==
    [][\A fdp \in FrameReadings :
          (/\ fdp.lap_no = currentLap + 1
           /\ fdp.cur_lap_time > 1
           /\ update(fdp))
          => /\ currentLap' = -1
             /\ syncLap' = fdp.lap_no + 1
             /\ UNCHANGED <<distanceFactor, bestLap, bestLapPoints>>
             /\ ~PointInserted
             /\ DeltaUntouched
             /\ lapEvent' = "GAP_DETECTED"]_vars

\* A gap at the lap boundary while a best lap with its trace is held.
C11_Witness ==
    /\ lapEvent = "GAP_DETECTED"
    /\ currentLap = -1
    /\ syncLap = 2
    /\ bestLap # None
    /\ bestLapPoints # <<>>
    /\ distanceFactor = 100

\* C12: a reading whose lap is neither currentLap nor currentLap + 1: if it
\* is syncLap, currentLap becomes syncLap, distanceFactor becomes
\* dist_traveled and currentLapPoints becomes the single point
\* (0, cur_lap_time); otherwise syncLap becomes playerLap + 1 and currentLap,
\* distanceFactor, currentLapPoints, bestLap and bestLapPoints keep their
\* values.
C12_ResyncOrKeepWaiting ==
    [][\A fdp \in FrameReadings :
          (/\ fdp.lap_no # currentLap
           /\ fdp.lap_no # currentLap + 1
           /\ update(fdp))
          => IF fdp.lap_no = syncLap
             THEN /\ currentLap' = syncLap
                  /\ distanceFactor' = fdp.dist_traveled
                  /\ currentLapPoints' = << <<0, fdp.cur_lap_time>> >>
             ELSE /\ syncLap' = fdp.lap_no + 1
                  /\ UNCHANGED <<currentLap, distanceFactor, currentLapPoints,
                                 bestLap, bestLapPoints>>]_vars

\* A resync away from the origin of the distance counter, mid-lap, while a
\* best trace is held.
C12_Witness ==
    /\ lapEvent = "RESYNCED"
    /\ currentLap = syncLap
    /\ distanceFactor = 100
    /\ currentLapPoints = << <<0, 2>> >>
    /\ bestLapPoints # <<>>

\* C13: a normal lap crossing (playerLap = currentLap + 1, cur_lap_time <= 1)
\* increments currentLap by one, sets distanceFactor to dist_traveled, keeps
\* syncLap and leaves currentLapPoints holding the single point
\* (0, cur_lap_time).
C13_NormalCrossing ==
    [][\A fdp \in FrameReadings :
          (/\ fdp.lap_no = currentLap + 1
           /\ fdp.cur_lap_time <= 1
           /\ update(fdp))
          => /\ currentLap' = currentLap + 1
             /\ distanceFactor' = fdp.dist_traveled
             /\ syncLap' = syncLap
             /\ currentLapPoints' = << <<0, fdp.cur_lap_time>> >>]_vars

\* A crossing into lap 2 at distance 100, the new trace holding its first
\* point only.
C13_Witness ==
    /\ lapEvent = "NEW_LAP"
    /\ currentLap = 2
    /\ distanceFactor = 100
    /\ currentLapPoints = << <<0, 0>> >>
    /\ currentPoint = <<0, 0>>

\* C14: a reading of the current lap (playerLap = currentLap) changes none of
\* currentLap, syncLap, distanceFactor, bestLap and bestLapPoints, and
\* currentLapPoints is either unchanged or longer by the one current point.
C14_LapContinuedFrame ==
    [][\A fdp \in FrameReadings :
          (/\ fdp.lap_no = currentLap
           /\ update(fdp))
          => /\ UNCHANGED <<currentLap, syncLap, distanceFactor, bestLap,
                            bestLapPoints>>
             /\ \/ currentLapPoints' = currentLapPoints
                \/ currentLapPoints' =
                      Append(currentLapPoints,
                             <<fdp.dist_traveled - distanceFactor,
                               fdp.cur_lap_time>>)]_vars

\* A reading of the current lap that appended the second point of the trace
\* while a best trace is held.
C14_Witness ==
    /\ lapEvent = "LAP_CONTINUED"
    /\ Len(currentLapPoints) = 2
    /\ currentPoint = Last(currentLapPoints)
    /\ bestLapPoints # <<>>

\* C15: a reading with a negative lap number takes the resync path: the step
\* it produces is GAP_DETECTED or RESYNCED, never LAP_CONTINUED or NEW_LAP.
C15_NegativeLapResyncs ==
    [][\A fdp \in SignedReadings :
          (/\ fdp.lap_no < 0
           /\ update(fdp))
          => lapEvent' \in {"GAP_DETECTED", "RESYNCED"}]_vars

\* The outcome the branch conditions of update give a reading in the
\* current state.
outcomeOf(fdp) ==
    IF fdp.lap_no = currentLap THEN "LAP_CONTINUED"
    ELSE IF fdp.lap_no = currentLap + 1
         THEN IF fdp.cur_lap_time > 1 THEN "GAP_DETECTED" ELSE "NEW_LAP"
         ELSE IF fdp.lap_no = syncLap THEN "RESYNCED" ELSE "GAP_DETECTED"

NoDelta ==
    /\ bestPointIndex = 0
    /\ interval = 0
    /\ intervalText = InitialText

\* C17: listening starts in the middle of lap L (game.first) and no packet
\* is lost: during lap L no point is recorded; during lap L + 1 the trace is
\* recorded from the line and no delta is shown; the crossing into lap L + 2
\* makes the trace of lap L + 1 the best trace, and from that reading on a
\* delta is computed.
C17_MidLapStart ==
    /\ [](game.listening =>
            /\ game.lap = game.first =>
                  /\ currentLapPoints = <<>>
                  /\ bestLapPoints = <<>>
                  /\ NoDelta
            /\ game.lap = game.first + 1 =>
                  /\ currentLap = game.lap
                  /\ currentLapPoints # <<>>
                  /\ currentLapPoints[1][1] = 0
                  /\ currentLapPoints[1][2] <= 1
                  /\ bestLapPoints = <<>>
                  /\ NoDelta
            /\ game.lap >= game.first + 2 =>
                  /\ IntervalComputed
                  /\ bestPointIndex >= 1
                  /\ bestLap # None)
    /\ [][(game.listening /\ game.lap = game.first + 1
              /\ game'.lap = game.first + 2)
            => /\ bestLapPoints' = currentLapPoints
               /\ bestLap' = <<game.time>>
               /\ lapEvent' = "NEW_LAP"]_vars

\* In lap L + 2, against the two-point trace of lap L + 1, a delta that is
\* not zero.
C17_Witness ==
    /\ game.listening
    /\ game.lap = game.first + 2
    /\ Len(bestLapPoints) >= 2
    /\ bestLapPoints[1] = <<0, 0>>
    /\ interval # 0

\* C18: a datagram whose is_race_on is false changes nothing of the
\* IntervalWidget (currentLap, syncLap, distanceFactor, bestLap, both traces)
\* and nothing of the FuelWidget (fuelLevelHistory, lastLap); every
\* datagram, race on or off, makes onCollected emit isRacing once, carrying
\* the decoded flag, and the NOT RACING alert follows it.
C18_RaceOffChangesNothing ==
    [][\A fdp \in DashDatagrams :
          onCollected(fdp) =>
            /\ isRacing'.flag = <<fdp.is_race_on>>
            /\ isRacing'.emissions # isRacing.emissions
            /\ notRacing' = ~fdp.is_race_on
            /\ ~fdp.is_race_on =>
                  UNCHANGED <<currentLap, syncLap, distanceFactor, bestLap,
                              currentLapPoints, bestLapPoints,
                              fuelLevelHistory, lastLap>>]_vars

\* A race-off datagram arrived while both widgets hold data of the race:
\* the alert is shown, a best trace and a fuel history are held.
C18_Witness ==
    /\ isRacing.flag = <<FALSE>>
    /\ notRacing
    /\ bestLapPoints # <<>>
    /\ currentLapPoints # <<>>
    /\ fuelLevelHistory # None
    /\ lastLap = currentLap

\* Worker w is in its receive loop and has not been asked to stop.
Listening(w) ==
    /\ worker[w].working
    /\ worker[w].pc \in {"loop", "select"}

\* No datagram collected by Worker w waits for the main thread.
NothingPending(w) ==
    \A i \in 1..Len(mainQueue) :
        ~(mainQueue[i].signal = "collected" /\ mainQueue[i].from = w)

\* C19: while a Worker listens and only socket timeouts occur (MaxTimeouts
\* in a row, every datagram received before them already handled), the
\* NOT RACING alert is shown.
C19_StalledShowsNotRacing ==
    \A w \in workerIds :
        (/\ Listening(w)
         /\ worker[w].timeouts = MaxTimeouts
         /\ NothingPending(w))
        => notRacing

\* C20: for every Worker: the socket is closed at most once and finished is
\* emitted at most once, neither before the stop request (working set to
\* False), and a Worker whose work() has ended after a stop request has
\* closed its socket and emitted finished, once each.
C20_StopClosesAndFinishesOnce ==
    \A w \in workerIds :
        /\ worker[w].closes <= 1
        /\ worker[w].finishes <= 1
        /\ (worker[w].closes > 0 \/ worker[w].finishes > 0)
              => ~worker[w].working
        /\ (~worker[w].working /\ worker[w].pc \in {"returned", "raised"})
              => /\ worker[w].closes = 1
                 /\ worker[w].finishes = 1
                 /\ worker[w].sock = "closed"

\* Worker w holds the listening port.
Bound(w) == worker[w].sock = "bound"

\* C21: a Worker's socket is closed only after its receive loop has exited
\* (the loop test found working False), and a Worker binds the port only
\* after every earlier Worker has closed its socket: no bind finds the port
\* taken, and two sockets are never bound at the same time.
C21_OneSocketOnThePort ==
    \A w \in workerIds :
        /\ worker[w].sock = "closed"
              => /\ worker[w].pc \in {"emit", "returned"}
                 /\ ~worker[w].working
        /\ worker[w].pc = "started"
              => \A v \in workerIds : ~Bound(v)
        /\ Bound(w)
              => \A v \in workerIds \ {w} :
                    /\ ~Bound(v)
                    /\ v < w => worker[v].sock = "closed"
        /\ ~(worker[w].pc = "raised" /\ worker[w].sock = "open")

\* The second Worker holds the port in its receive loop after the first
\* one has closed its socket and returned.
C21_Witness ==
    /\ Len(worker) = 2
    /\ worker[1].sock = "closed"
    /\ worker[1].pc = "returned"
    /\ Bound(2)
    /\ worker[2].pc = "select"

\* Worker w has been asked to stop.
StopRequested(w) == w \in workerIds /\ ~worker[w].working

\* The stop request of Worker w has been observed to its end.
StopObserved(w) ==
    /\ w \in workerIds
    /\ worker[w].sock = "closed"
    /\ worker[w].finishes = 1
    /\ buttons.listenEnabled

\* C22: under fair scheduling every stop request, made at any moment after
\* the start request (also before work() has begun), is eventually observed:
\* the Worker closes its socket, emits finished and loop_finished enables
\* the listen button again; and a Worker that tests working after the
\* request leaves the loop there, so it waits in select at most once more.
C22_StopEventuallyObserved ==
    /\ \A w \in 1..MaxWorkers : StopRequested(w) ~> StopObserved(w)
    /\ [][\A w \in workerIds :
            (~worker[w].working /\ worker[w].pc = "loop")
                => worker'[w].pc \in {"loop", "close"}]_vars

\* C23: a BlockingIOError raised by the non-blocking read, at any iteration
\* of the loop (the first one, before any datagram, included), is logged and
\* the loop goes on with its next test: work() does not end and working is
\* unchanged.
C23_BlockingIOContinues ==
    [][\A w \in workerIds :
          BlockingIO(w)
            => /\ worker'[w].pc = "loop"
               /\ worker'[w].working = worker[w].working]_vars

\* The signal the main thread takes next carries a datagram.
DatagramNext ==
    /\ mainQueue # <<>>
    /\ Head(mainQueue).signal = "collected"

\* C24: a datagram that cannot be decoded is dropped: the step that hands it
\* to onCollected changes nothing of the IntervalWidget, the FuelWidget and
\* the alerts (no update is emitted), leaves every Worker where it is and
\* takes only that datagram off the queue; and whenever a datagram is next
\* in the queue the main thread can handle it, so every later datagram is
\* still processed.
C24_UndecodableDropped ==
    /\ [](DatagramNext => ENABLED DeliverCollected)
    /\ [][(DatagramNext /\ decodeFails(Head(mainQueue).data)
              /\ DeliverCollected)
            => /\ UNCHANGED <<intervalVars, fuelVars, alertVars, worker>>
               /\ mainQueue' = Tail(mainQueue)]_vars

\* The first datagram was handed to onCollected and nothing was emitted for
\* it (it was a short one: no isRacing so far, the widgets untouched), the
\* Worker is still listening, and a decodable datagram received afterwards
\* is next in the queue.
C24_Witness ==
    /\ Len(worker) = 1
    /\ Listening(1)
    /\ handled = <<1>>
    /\ isRacing.flag = None
    /\ lapEvent = "NONE"
    /\ fuelLevelHistory = None
    /\ DatagramNext
    /\ Head(mainQueue).seq = 2
    /\ ~decodeFails(Head(mainQueue).data)

\* The arrival numbers of the datagrams waiting in the queue, in queue order.
RECURSIVE waiting(_)
waiting(queue) ==
    IF queue = <<>> THEN <<>>
    ELSE IF Head(queue).signal = "collected"
         THEN <<Head(queue).seq>> \o waiting(Tail(queue))
         ELSE waiting(Tail(queue))

\* C25: datagrams reach onCollected (and through it IntervalWidget.update
\* and FuelWidget.update) strictly in the order the Workers received them,
\* each once: the ones handled so far followed by the ones waiting are
\* 1, 2, ..., arrived; and the pipeline runs for one datagram at a time: a
\* step that changes the widgets is the reset click or the handling of
\* exactly the datagram at the head of the queue.
C25_ArrivalOrder ==
    /\ [](handled \o waiting(mainQueue) = [i \in 1..arrived |-> i])
    /\ [][(intervalVars' # intervalVars \/ fuelVars' # fuelVars)
            => \/ handled' = handled /\ worker' = worker /\ buttons.resetEnabled
               \/ /\ DatagramNext
                  /\ handled' = Append(handled, Head(mainQueue).seq)
                  /\ worker' = worker]_vars

\* Three datagrams came in, two through the first Worker and one through
\* the second; the first two have been handled, the second of them with
\* the race on, and the third waits.
C25_Witness ==
    /\ Len(worker) = 2
    /\ arrived = 3
    /\ handled = <<1, 2>>
    /\ lapEvent # "NONE"
    /\ Len(mainQueue) = 1
    /\ DatagramNext
    /\ Head(mainQueue).from = 2

\* C26: from the first race-on reading after construction or reset on,
\* fuelLevelHistory has exactly 4 entries (it is None exactly while no such
\* reading has been sampled, lastLap still -3), and the first sample fills
\* all 4 entries with the first observed fuel value.
C26_FourEntries ==
    /\ [](/\ fuelLevelHistory = None <=> lastLap = -3
          /\ fuelLevelHistory # None => Len(fuelLevelHistory) = 4)
    /\ [][\A fdp \in DashDatagrams :
            (fuelLevelHistory = None /\ fdp.is_race_on /\ onCollected(fdp))
              => fuelLevelHistory' = <<fdp.fuel, fdp.fuel, fdp.fuel, fdp.fuel>>]_vars

\* The first race-on reading, at fuel 0.5 in lap 1, has been sampled.
C26_Witness ==
    /\ fuelLevelHistory = <<50000, 50000, 50000, 50000>>
    /\ lastLap = 1
    /\ isRacing.flag = <<TRUE>>

\* C27: FuelWidget.update takes one fuel sample per lap transition: a
\* reading whose lap_no differs from lastLap removes the oldest entry of the
\* history and appends the reading's fuel value (lastLap becoming lap_no);
\* a reading of the same lap leaves the history as it is.
C27_OneSamplePerLap ==
    [][\A fdp \in FuelReadings :
          (fuelLevelHistory # None /\ fuelUpdate(fdp))
            => IF fdp.lap_no # lastLap
               THEN /\ fuelLevelHistory' =
                          Append(Tail(fuelLevelHistory), fdp.fuel)
                    /\ lastLap' = fdp.lap_no
               ELSE UNCHANGED <<fuelLevelHistory, lastLap>>]_vars

\* The pairs of successive entries of a history over which the level fell.
Decreases(history) == {i \in 1..3 : history[i] > history[i + 1]}

\* The sum of the falls over a set of pairs.
RECURSIVE SumOfFalls(_, _)
SumOfFalls(history, pairs) ==
    IF pairs = {} THEN 0
    ELSE LET i == CHOOSE j \in pairs : TRUE
         IN  (history[i] - history[i + 1]) + SumOfFalls(history, pairs \ {i})

\* The greatest common divisor of two naturals, the second positive.
RECURSIVE GCD(_, _)
GCD(a, b) == IF a = 0 THEN b ELSE GCD(b % a, a)

\* A quotient <<n, d>> (n >= 0, d > 0) in lowest terms.
Lowest(q) == <<q[1] \div GCD(q[1], q[2]), q[2] \div GCD(q[1], q[2])>>

\* Two quotients <<n, d>> are equal.
SameQuotient(a, b) == Lowest(a) = Lowest(b)

\* C28: getAverageFuelUsage returns the sum of the positive consecutive
\* decreases of the 4-entry history divided by their number (zero when
\* there is none); a pair over which the level rose or stayed adds to
\* neither.  The usage shown is that of the history held.
C28_AverageOfDecreases ==
    fuelLevelHistory # None =>
        LET falls == Decreases(fuelLevelHistory)
            average == IF falls = {} THEN <<0, 1>>
                       ELSE <<SumOfFalls(fuelLevelHistory, falls),
                              Cardinality(falls)>>
        IN  /\ SameQuotient(getAverageFuelUsage(fuelLevelHistory), average)
            /\ SameQuotient(fuelPerLap, average)

\* A history with a refuel between two laps of consumption: 90, 80, 100,
\* 90 percent; the usage shown is 10 percent a lap, the average of the two
\* falls.
C28_Witness ==
    /\ fuelLevelHistory = <<9000000, 8000000, 10000000, 9000000>>
    /\ SameQuotient(fuelPerLap, <<1000000, 1>>)

\* The histories of the example: primed at fuel 1.00, then lap transitions
\* at 0.90, 0.80 and 0.70 (the priming reading being the first of the four
\* fed), or primed at 1.00 and then transitions at 1.00, 0.90, 0.80, 0.70.
ExampleHistories ==
    {shiftedHistory(shiftedHistory(shiftedHistory(
         primedHistory(100000), 90000), 80000), 70000),
     shiftedHistory(shiftedHistory(shiftedHistory(shiftedHistory(
         primedHistory(100000), 100000), 90000), 80000), 70000)}

C30_NoDecreaseNoProjection ==
    [][\A fdp \in FuelReadings :
          (/\ fuelUpdate(fdp)
           /\ fuelLevelHistory' # None
           /\ Decreases(fuelLevelHistory') = {})
            => /\ getAverageFuelUsage(fuelLevelHistory')[1] = 0
               /\ fuelPerLap'[1] = 0
               /\ UNCHANGED <<lapsLeft, pitAlert>>]_vars

\* Three laps after a refuel the history holds no decrease any more (70,
\* 100, 100, 100 percent): the usage shown is zero and the laps left are
\* still the 10 computed before.
C30_Witness ==
    /\ fuelLevelHistory = <<7000000, 10000000, 10000000, 10000000>>
    /\ fuelPerLap[1] = 0
    /\ SameQuotient(lapsLeft, <<10, 1>>)

\* C31: whenever a tick computes the laps left, the low-fuel flag follows
\* them: enoughFuel is emitted False and the pit alert is shown exactly when
\* the laps left are <= 1, and emitted True, the alert hidden, when they
\* are > 1.
C31_LowFuelFlag ==
    [][\A fdp \in FuelReadings :
          (/\ fuelUpdate(fdp)
           /\ fuelLevelHistory' # None
           /\ Decreases(fuelLevelHistory') # {})
            => /\ pitAlert' <=> lapsLeft'[1] <= lapsLeft'[2]
               /\ enoughFuel(lapsLeft') <=> lapsLeft'[1] > lapsLeft'[2]
               /\ pitAlert' = showHide(enoughFuel(lapsLeft'))]_vars

\* Half a tank was used over the last lap and half a tank is left: exactly
\* one lap left, the alert shown.
C31_Witness ==
    /\ fuelLevelHistory # None
    /\ fuelLevelHistory[3] = 10000000
    /\ fuelLevelHistory[4] = 5000000
    /\ SameQuotient(lapsLeft, <<1, 1>>)
    /\ pitAlert

\* C32: bestLapPoints is a frozen reference: a step changes it only if it is
\* a NEW_LAP tick on which the replacement condition holds (bestLap unset,
\* <= 0, or the lap just completed faster), which makes it the trace just
\* completed, or the reset; LAP_CONTINUED, RESYNCED and the gap outcomes,
\* with the insertions into and the clearing of currentLapPoints they make,
\* leave it as it is.
C32_BestTraceFrozen ==
    [][/\ lapEvent' \in {"LAP_CONTINUED", "RESYNCED", "GAP_DETECTED"}
            => bestLapPoints' = bestLapPoints
       /\ bestLapPoints' # bestLapPoints
            => \/ /\ lapEvent' = "NONE"
                  /\ bestLapPoints' = <<>>
               \/ /\ lapEvent' = "NEW_LAP"
                  /\ bestLapPoints' = currentLapPoints
                  /\ bestLap' # None
                  /\ \/ bestLap = None
                     \/ bestLap[1] <= 0
                     \/ bestLap'[1] < bestLap[1]]_vars

\* The trace of the 88 s lap is held as the best trace while the lap after
\* it has been cleared and is being recorded: two points in, different from
\* the best trace.
C32_Witness ==
    /\ lapEvent = "LAP_CONTINUED"
    /\ bestLap = <<88>>
    /\ bestLapPoints # <<>>
    /\ Len(currentLapPoints) = 2
    /\ currentLapPoints # bestLapPoints

\* C33: reset restores the starting state.  While no reading has been
\* processed since construction or since the last reset, the IntervalWidget
\* has currentLap = -2, syncLap = -1, distanceFactor = 0, no current point,
\* bestLap unset, both traces empty and the text 0.000, and the FuelWidget
\* has no history, lastLap = -3 and both labels at 0: every field update
\* reads is what __init__ left, so the readings fed next give the states
\* they give a freshly constructed widget.
C33_ResetRestoresStart ==
    lapEvent = "NONE" =>
        /\ currentLap = -2
        /\ syncLap = -1
        /\ distanceFactor = 0
        /\ currentPoint = None
        /\ bestLap = None
        /\ bestLapPoints = <<>>
        /\ currentLapPoints = <<>>
        /\ intervalText = InitialText
        /\ fuelLevelHistory = None
        /\ lastLap = -3
        /\ fuelPerLap = ZeroShown
        /\ lapsLeft = ZeroShown

\* The reset button was clicked after datagrams of a race had been handled
\* (the label's colour is the one reset sets, the race state was notified):
\* nothing of the laps recorded is left.
C33_Witness ==
    /\ lapEvent = "NONE"
    /\ intervalColor = "white"
    /\ isRacing.flag = <<TRUE>>
    /\ bestLap = None
    /\ bestLapPoints = <<>>
    /\ fuelLevelHistory = None

\* C34: the first reading after construction or reset is a gap whatever its
\* cur_lap_time, 0 included: syncLap becomes lap_no + 1, currentLap stays -2
\* and no point is inserted, so the lap of that reading is not recorded.
\* As long as nothing has been recorded (currentLap = -2) a reading either
\* is such a gap or has the lap number awaited, one more than the lap of
\* the reading before it, and starts the recording (RESYNCED).
C34_FirstLapNotRecorded ==
    [][\A fdp \in FrameReadings :
          (currentLap = -2 /\ update(fdp)) =>
              IF lapEvent = "NONE" \/ fdp.lap_no # syncLap
              THEN /\ lapEvent' = "GAP_DETECTED"
                   /\ syncLap' = fdp.lap_no + 1
                   /\ currentLap' = -2
                   /\ currentLapPoints' = <<>>
                   /\ bestLapPoints' = <<>>
              ELSE /\ lapEvent' = "RESYNCED"
                   /\ lapEvent = "GAP_DETECTED"
                   /\ fdp.lap_no >= 1
                   /\ currentLap' = fdp.lap_no]_vars

\* The first reading was taken on the line of lap 0 (cur_lap_time 0): a gap,
\* lap 1 awaited, nothing recorded.
C34_Witness ==
    /\ lapEvent = "GAP_DETECTED"
    /\ currentLap = -2
    /\ syncLap = 1
    /\ currentPoint = <<0, 0>>
    /\ currentLapPoints = <<>>
    /\ bestLap = None

\* C35: a best trace that is not empty stays not empty until reset: no
\* update replaces it by an empty one.
C35_BestTraceStaysNonEmpty ==
    [][(bestLapPoints # <<>> /\ lapEvent' # "NONE") => bestLapPoints' # <<>>]_vars

\* C36: the points of currentLapPoints are relative to the current
\* distanceFactor.  A tick leaves the trace as it is, empties it, appends
\* the point (dist_traveled - distanceFactor, cur_lap_time) of its reading
\* or makes that point the whole trace; distanceFactor changes only on
\* NEW_LAP and RESYNCED ticks, to the reading's dist_traveled, and these
\* leave no point recorded under the old factor (reset, the other change,
\* empties the trace).  So every stored point is its reading's
\* dist_traveled minus the factor now in force.
C36_PointsRelativeToFactor ==
    [][/\ \A fdp \in FrameReadings :
            update(fdp) =>
                LET p == <<fdp.dist_traveled - distanceFactor',
                           fdp.cur_lap_time>>
                IN  /\ currentLapPoints' \in
                            {currentLapPoints, Append(currentLapPoints, p),
                             <<>>, <<p>>}
                    /\ distanceFactor' # distanceFactor
                            => /\ lapEvent' \in {"NEW_LAP", "RESYNCED"}
                               /\ distanceFactor' = fdp.dist_traveled
                               /\ currentLapPoints' = <<p>>
                    /\ lapEvent' \in {"NEW_LAP", "RESYNCED"}
                            => /\ distanceFactor' = fdp.dist_traveled
                               /\ currentLapPoints' = <<p>>
       /\ (distanceFactor' # distanceFactor /\ lapEvent' = "NONE")
            => currentLapPoints' = <<>>]_vars

\* A lap was recorded from dist_traveled 0 to 100 under the factor 0; the
\* next lap began at dist_traveled 100: the factor is 100 and the trace
\* holds only the point of that reading, at distance 100 - 100.
C36_Witness ==
    /\ lapEvent = "NEW_LAP"
    /\ distanceFactor = 100
    /\ currentLapPoints = <<<<0, 0>>>>
    /\ bestLapPoints = <<<<0, 0>>, <<100, 2>>>>

\* C37: the entries of fuelLevelHistory are on one scale: after the history
\* was primed with the fuel f0 and one lap transition came at a fuel
\* f1 < f0, the usage reported is the fuel used over that lap, f0 - f1 (as
\* a fraction, or the same amount as a percentage), not zero and not a
\* difference of a fraction and a percentage.
C37_OneScale ==
    [][\A fdp \in FuelReadings :
          (/\ fuelLevelHistory # None
           /\ fuelLevelHistory[4] \in FuelLevels
           /\ fuelLevelHistory = primedHistory(fuelLevelHistory[4])
           /\ fdp.lap_no # lastLap
           /\ fdp.fuel < fuelLevelHistory[4]
           /\ fuelUpdate(fdp))
            => LET consumed == fuelLevelHistory[4] - fdp.fuel
               IN  \/ SameQuotient(fuelPerLap', <<consumed, 1>>)
                   \/ SameQuotient(fuelPerLap', <<100 * consumed, 1>>)]_vars

\* Worker w's finished signal has been delivered: loop_finished has run
\* for it.
loopFinishedRan(w) ==
    /\ worker[w].finishes > 0
    /\ \A i \in 1..Len(mainQueue) :
          ~(mainQueue[i].signal = "finished" /\ mainQueue[i].from = w)

\* Between loop_finished and the next start request: a Worker was started,
\* the listen button is released and enabled again.
listeningOver ==
    /\ worker # <<>>
    /\ ~buttons.listenChecked
    /\ buttons.listenEnabled

\* No datagram collected by a Worker is still waiting for onCollected once
\* that Worker's loop_finished has run.
nothingLeftOf(w) ==
    loopFinishedRan(w) =>
        \A i \in 1..Len(mainQueue) :
            ~(mainQueue[i].signal = "collected" /\ mainQueue[i].from = w)

\* The analytics state: what the two widgets have recorded and show.
analyticsState ==
    <<bestLap, currentLap, syncLap, currentPoint, distanceFactor,
      bestLapPoints, currentLapPoints, intervalText, fuelLevelHistory,
      lastLap, fuelPerLap, lapsLeft, pitAlert>>

\* C38 as stated: no datagram collected by a Worker is processed by
\* onCollected after that Worker's loop_finished has run; between
\* loop_finished and the next start request the last race-state
\* notification is False and the analytics state does not change.
C38_NoChangeAfterLoopFinished ==
    /\ [](\A w \in workerIds : nothingLeftOf(w))
    /\ [](listeningOver => isRacing.flag = <<FALSE>> /\ notRacing)
    /\ [][listeningOver => UNCHANGED analyticsState]_vars

\* C38, amended: no datagram collected by a Worker is processed by
\* onCollected after that Worker's loop_finished has run; between
\* loop_finished and the next start request the last race-state
\* notification is False, onCollected is not called, and the analytics
\* state changes only by the reset button, which loop_finished has enabled
\* again: a change there is the reset of both widgets.
C38_OnlyResetAfterLoopFinished ==
    /\ [](\A w \in workerIds : nothingLeftOf(w))
    /\ [](listeningOver => isRacing.flag = <<FALSE>> /\ notRacing)
    /\ [][listeningOver =>
            /\ handled' = handled
            /\ analyticsState' # analyticsState
                 => /\ buttons.resetEnabled
                    /\ lapEvent' = "NONE"
                    /\ currentLap' = -2
                    /\ bestLapPoints' = <<>>
                    /\ fuelLevelHistory' = None
                    /\ pitAlert' = pitAlert]_vars

\* A datagram of a running race was handled (the fuel history is primed,
\* lap 1 is awaited), then listening was stopped and loop_finished ran:
\* nothing waits for the main thread and the notification is False.
C38_Witness ==
    /\ listeningOver
    /\ loopFinishedRan(1)
    /\ handled = <<1>>
    /\ fuelLevelHistory # None
    /\ syncLap = 1
    /\ mainQueue = <<>>
    /\ isRacing.flag = <<FALSE>>
    /\ notRacing

\* From a start request until loop_finished has run for the Worker it made.
listening ==
    /\ worker # <<>>
    /\ ~loopFinishedRan(Len(worker))

\* C39: from a start request until loop_finished runs the reset and
\* settings buttons are disabled (and the display page stays shown), no
\* second Worker is started, so that at most one Worker has not had its
\* loop_finished; the analytics state changes only when onCollected handles
\* a datagram, never by reset; dashConfig, the port included, is not
\* modified.
C39_ListeningLocksControls ==
    /\ [](listening => /\ ~buttons.resetEnabled
                       /\ ~buttons.settingsEnabled
                       /\ tab = "display")
    /\ [](Cardinality({w \in workerIds : ~loopFinishedRan(w)}) <= 1)
    /\ [][listening =>
            /\ Len(worker') = Len(worker)
            /\ dashConfig' = dashConfig
            /\ analyticsState' # analyticsState
                 => handled' = Append(handled, Head(mainQueue).seq)]_vars

\* The port was changed to 5400 on the settings page and saved, listening
\* was started on it, a datagram was handled and the stop was requested:
\* loop_finished has not run yet, the configuration is the one saved
\* before the start.
C39_Witness ==
    /\ listening
    /\ dashConfig.port = 5400
    /\ worker[Len(worker)].port = 5400
    /\ handled # <<>>
    /\ fuelLevelHistory # None
    /\ ~buttons.listenChecked
    /\ ~buttons.listenEnabled

====
